---- MODULE Spec2Model ----
(***************************************************************************)
(* A model of the Blender add-on "Hidden Geometry Removal"                 *)
(* (src/HiddenGeometryRemoval.py): the camera rig, the per-camera          *)
(* visibility pass over the faces of a mesh, the deletion / selection /    *)
(* weld steps of the operator, and the lifetime of the generated cameras.  *)
(***************************************************************************)
EXTENDS Integers, Sequences, FiniteSets, TLC

(***************************************************************************)
(* Bounds of the model.                                                    *)
(***************************************************************************)
\* longest camera list handed to the visibility pass on its own
MaxCams == 3
\* largest product of camera count and face count of such a pass
MaxCells == 6
\* number of operator invocations in one behaviour
MaxRuns == 2
\* largest face count the seed-count computation is applied to
MaxTotal == 60

(***************************************************************************)
(* Program constants.                                                      *)
(***************************************************************************)
\* significand width of the float that `sampling_ratio / 100` produces
MantissaBits == 53
\* width of the limbs of the long division and of the multiplication
LimbBits == 13
\* limbs of the quotient generated before rounding (5 * 13 = 65 bits: more
\* than MantissaBits plus the at most six leading zeros of a ratio >= 1/100)
QuotientLimbs == 5
\* the divisor of the percentage
Percent == 100
\* HiddenRemovalProperties.rows: min
MinRows == 2
\* HiddenRemovalProperties.cameras_per_row: min
MinCamerasPerRow == 2
\* HiddenRemovalProperties.sampling_ratio: default
DefaultSamplingRatio == 30
\* HiddenRemovalProperties.flatness_angle: default
DefaultFlatnessAngle == 30

Max(a, b) == IF a >= b THEN a ELSE b

Min(a, b) == IF a <= b THEN a ELSE b

SetMin(S) == CHOOSE x \in S : \A y \in S : x <= y

(***************************************************************************)
(* Double-precision arithmetic of line 128,                                *)
(*     int(total_faces * (sampling_ratio / 100)),                          *)
(* on bit sequences (most significant bit first).  A float is a record     *)
(* [m, pt]: m is the 53-bit significand, its first bit 1, and pt the       *)
(* number of its leading bits that lie before the binary point (pt <= 0:   *)
(* the value is below 1).  Long division and multiplication work on limbs  *)
(* of LimbBits bits so that every intermediate value stays a small integer.*)
(***************************************************************************)
RECURSIVE DivLimbs(_, _, _)
\* the first n base-2^LimbBits digits of the fraction rem/den (rem < den)
\* and the remainder left after them
DivLimbs(rem, den, n) ==
    IF n = 0 THEN [limbs |-> <<>>, rem |-> rem]
    ELSE LET t == rem * 2^LimbBits
             rest == DivLimbs(t % den, den, n - 1)
         IN [limbs |-> <<t \div den>> \o rest.limbs, rem |-> rest.rem]

\* the w bits of x < 2^w, most significant first
BitsOf(x, w) == [i \in 1..w |-> (x \div 2^(w - i)) % 2]

RECURSIVE NatToBits(_)
\* the bits of n without leading zeros
NatToBits(n) == IF n = 0 THEN <<>> ELSE NatToBits(n \div 2) \o <<n % 2>>

RECURSIVE BitsToNat(_)
BitsToNat(bits) ==
    IF bits = <<>> THEN 0
    ELSE 2 * BitsToNat(SubSeq(bits, 1, Len(bits) - 1)) + bits[Len(bits)]

RECURSIVE Flatten(_)
Flatten(seqs) == IF seqs = <<>> THEN <<>> ELSE Head(seqs) \o Flatten(Tail(seqs))

RECURSIVE LeadingZeros(_)
LeadingZeros(bits) ==
    IF bits = <<>> \/ bits[1] = 1 THEN 0
    ELSE 1 + LeadingZeros(Tail(bits))

Zeros(n) == [i \in 1..n |-> 0]

\* bits + 1 (one bit longer when every bit was 1)
IncBits(bits) ==
    LET zs == {i \in 1..Len(bits) : bits[i] = 0}
    IN IF zs = {} THEN <<1>> \o Zeros(Len(bits))
       ELSE LET j == CHOOSE i \in zs : \A k \in zs : k <= i
            IN SubSeq(bits, 1, j - 1) \o <<1>> \o Zeros(Len(bits) - j)

RECURSIVE MulLimbs(_, _, _, _)
\* (the number whose bits are bits[1..hi]) * k + carry, as bits without
\* leading zeros; the limbs are taken from the least significant end
MulLimbs(bits, hi, k, carry) ==
    IF hi = 0 THEN NatToBits(carry)
    ELSE LET lo == Max(1, hi - LimbBits + 1)
             w == hi - lo + 1
             t == BitsToNat(SubSeq(bits, lo, hi)) * k + carry
         IN MulLimbs(bits, lo - 1, k, t \div 2^w) \o BitsOf(t % 2^w, w)

\* round-to-nearest, ties-to-even, of a bit string that starts with 1 to
\* MantissaBits bits; sticky says that non-zero bits follow the string.
\* carry = 1 when the rounding overflowed into one more leading bit.
RoundNearestEven(bits, sticky) ==
    IF Len(bits) <= MantissaBits
    THEN [m |-> bits \o Zeros(MantissaBits - Len(bits)), carry |-> 0]
    ELSE LET mant == SubSeq(bits, 1, MantissaBits)
             guard == bits[MantissaBits + 1]
             rest == sticky \/ \E i \in (MantissaBits + 2)..Len(bits) : bits[i] = 1
             up == guard = 1 /\ (rest \/ mant[MantissaBits] = 1)
             inc == IncBits(mant)
         IN IF ~up THEN [m |-> mant, carry |-> 0]
            ELSE IF Len(inc) > MantissaBits
                 THEN [m |-> SubSeq(inc, 1, MantissaBits), carry |-> 1]
                 ELSE [m |-> inc, carry |-> 0]

\* the float  n / 100  for an integer n in 1..100 (true division)
FloatPercent(n) ==
    LET frac == DivLimbs(n % Percent, Percent, QuotientLimbs)
        stream == <<n \div Percent>>
                  \o Flatten([i \in 1..QuotientLimbs |-> BitsOf(frac.limbs[i], LimbBits)])
        z == LeadingZeros(stream)
        r == RoundNearestEven(SubSeq(stream, z + 1, Len(stream)), frac.rem # 0)
    IN [m |-> r.m, pt |-> 1 - z + r.carry]

\* the float  k * f  for an integer k >= 1 (k is exactly representable)
FloatTimesInt(f, k) ==
    LET prod == MulLimbs(f.m, MantissaBits, k, 0)
        r == RoundNearestEven(prod, FALSE)
    IN [m |-> r.m, pt |-> f.pt + (Len(prod) - MantissaBits) + r.carry]

\* int(f): truncation toward zero
FloatTrunc(f) ==
    IF f.pt <= 0 THEN 0 ELSE BitsToNat(SubSeq(f.m, 1, Min(f.pt, MantissaBits)))

\* the count rounded up instead of truncated
SampleCountCeiling(total_faces, sampling_ratio) ==
    Max(1, (total_faces * sampling_ratio + Percent - 1) \div Percent)

\* line 128: max(1, int(total_faces * (sampling_ratio / 100)))
SampleCount(total_faces, sampling_ratio) ==
    Max(1, IF total_faces = 0 THEN 0
           ELSE FloatTrunc(FloatTimesInt(FloatPercent(sampling_ratio), total_faces)))

(***************************************************************************)
(* Meshes.  A mesh is a record                                             *)
(*   verts, edges, faces : the elements (edges are two-element sets of     *)
(*                         vertices, faces are identifiers);               *)
(*   fv                  : the vertices of each face (triangles);          *)
(*   selV, selE, selF    : the select flags;                               *)
(*   hidV, hidE, hidF    : the hide flags.                                 *)
(* The normal of a face is a direction in a plane, in degrees.             *)
(***************************************************************************)
EmptyMesh ==
    [verts |-> {}, edges |-> {}, faces |-> {}, fv |-> << >>,
     selV |-> {}, selE |-> {}, selF |-> {},
     hidV |-> {}, hidE |-> {}, hidF |-> {}]

Pairs(S) == {{a, b} : a, b \in S} \ {{a} : a \in S}

\* a strip of n triangles: face f has the vertices f, f+1, f+2
Strip(n) ==
    [EmptyMesh EXCEPT
        !.verts = IF n = 0 THEN {} ELSE 1..(n + 2),
        !.edges = UNION {Pairs({f, f + 1, f + 2}) : f \in 1..n},
        !.faces = 1..n,
        !.fv = [f \in 1..n |-> {f, f + 1, f + 2}]]

\* a wire edge (no face uses it), selected or not when the run starts
WireVerts == {8, 9}

WithWire(m, isSelected) ==
    [m EXCEPT !.verts = @ \cup WireVerts, !.edges = @ \cup {WireVerts},
              !.selV = IF isSelected THEN @ \cup WireVerts ELSE @,
              !.selE = IF isSelected THEN @ \cup {WireVerts} ELSE @]

\* a second mesh object: one triangle
Triangle ==
    [EmptyMesh EXCEPT
        !.verts = {11, 12, 13}, !.edges = Pairs({11, 12, 13}),
        !.faces = {11}, !.fv = (11 :> {11, 12, 13})]

\* face normals, in degrees
Normal(f) == CASE f = 1 -> 0 [] f = 2 -> 20 [] f = 3 -> 100 [] OTHER -> 200

FaceEdges(m, f) == {e \in m.edges : e \subseteq m.fv[f]}

EdgesAt(m, v) == {e \in m.edges : v \in e}

FacesAtVert(m, v) == {f \in m.faces : v \in m.fv[f]}

FacesAtEdge(m, e) == {f \in m.faces : e \subseteq m.fv[f]}

FaceVerts(m, F) == UNION {m.fv[f] : f \in F}

\* lines 105-110: are_faces_similar
AngleBetween(a, b) ==
    LET d == IF a >= b THEN a - b ELSE b - a
    IN IF d > 180 THEN 360 - d ELSE d

are_faces_similar(face1, face2, max_angle_diff) ==
    AngleBetween(Normal(face1), Normal(face2)) <= max_angle_diff

(***************************************************************************)
(* The visibility pass, lines 113-189.  An oracle gives, per camera pose,  *)
(* the sample points that pass the test of lines 160-172: the point lies   *)
(* in the camera's cone and the ray cast towards it hits within 0.001 of   *)
(* it.  Sample points: <<"c", f>> the centre of face f, <<"v", v>> the     *)
(* vertex v, <<"e", e>> the midpoint of edge e.                            *)
(***************************************************************************)
\* lines 153-157: points_to_check
PointsToCheck(m, precision, f) ==
    {<<"c", f>>}
    \cup (IF precision = "HIGH"
          THEN {<<"v", v>> : v \in m.fv[f]} \cup {<<"e", e>> : e \in FaceEdges(m, f)}
          ELSE {})

\* lines 159-173: some sample point of the face passes
FaceSeen(oracle, m, precision, camera, f) ==
    \E pt \in PointsToCheck(m, precision, f) : pt \in oracle[camera]

\* lines 177-178: the faces linked to the vertices of the face
LinkedFaces(m, f) == {g \in m.faces : m.fv[g] \cap m.fv[f] # {}}

\* the neighbours without the test of line 180 against checked_faces
ExpansionIgnoringChecked(m, f, checked, sel, flatness_angle) ==
    {g \in LinkedFaces(m, f) :
        g \notin sel /\ are_faces_similar(f, g, flatness_angle)}

\* lines 179-182: the neighbours put on the frontier
Expansion(m, f, checked, sel, flatness_angle) ==
    {g \in LinkedFaces(m, f) :
        g \notin checked /\ g \notin sel /\ are_faces_similar(f, g, flatness_angle)}

\* an iteration that skips checked faces only and assigns the outcome of
\* the test to the face's flag, so that a later camera can deselect
LoopBodyOverwriting(cfg, camera, f, st) ==
    LET popped == st.toCheck \ {f}
    IN IF f \in st.checked
       THEN [st EXCEPT !.toCheck = popped]
       ELSE LET checked2 == st.checked \cup {f}
            IN IF FaceSeen(cfg.oracle, cfg.mesh, cfg.precision, camera, f)
               THEN LET sel2 == st.sel \cup {f}
                        more == IF cfg.experimental
                                THEN Expansion(cfg.mesh, f, checked2, sel2,
                                               cfg.flatness_angle)
                                ELSE {}
                    IN [toCheck |-> popped \cup more, checked |-> checked2,
                        sel |-> sel2]
               ELSE [toCheck |-> popped, checked |-> checked2,
                     sel |-> st.sel \ {f}]

\* lines 145-183: one iteration of the while loop, which pops face f.
\* st = [toCheck, checked, sel]; cfg = [oracle, mesh, precision,
\* experimental, flatness_angle]
LoopBody(cfg, camera, f, st) ==
    LET popped == st.toCheck \ {f}
    IN IF f \in st.checked \/ f \in st.sel
       THEN [st EXCEPT !.toCheck = popped]
       ELSE LET checked2 == st.checked \cup {f}
            IN IF FaceSeen(cfg.oracle, cfg.mesh, cfg.precision, camera, f)
               THEN LET sel2 == st.sel \cup {f}
                        more == IF cfg.experimental
                                THEN Expansion(cfg.mesh, f, checked2, sel2,
                                               cfg.flatness_angle)
                                ELSE {}
                    IN [toCheck |-> popped \cup more, checked |-> checked2,
                        sel |-> sel2]
               ELSE [toCheck |-> popped, checked |-> checked2, sel |-> st.sel]

RECURSIVE WhileLoop(_, _, _)
\* lines 144-183 with the pop order that CHOOSE fixes
WhileLoop(cfg, camera, st) ==
    IF st.toCheck = {} THEN st
    ELSE WhileLoop(cfg, camera,
                   LoopBody(cfg, camera, CHOOSE f \in st.toCheck : TRUE, st))

\* a frontier whose checked set is carried over from the previous camera
StaleFrontier(initial, before) ==
    [toCheck |-> initial, checked |-> before.checked, sel |-> before.sel]

\* lines 141-142: the frontier and the checked set a camera starts with
\* (before: the state the previous camera left)
FreshFrontier(initial, before) ==
    [toCheck |-> initial, checked |-> {}, sel |-> before.sel]

RECURSIVE CameraLoop(_, _, _, _, _)
\* lines 135-183: the cameras from index i on; st is the state the
\* previous camera left
CameraLoop(cfg, cameraList, initial, i, st) ==
    IF i > Len(cameraList) THEN st.sel
    ELSE CameraLoop(cfg, cameraList, initial, i + 1,
                    WhileLoop(cfg, cameraList[i], FreshFrontier(initial, st)))

\* line 130: the results random.sample(population, k) can give (none when
\* k exceeds the population: ValueError)
Samples(population, k) == {S \in SUBSET population : Cardinality(S) = k}

\* lines 127-133: the initial faces the pass can start from
InitialFaces(m, experimental, sampling_ratio) ==
    IF experimental
    THEN Samples(m.faces, SampleCount(Cardinality(m.faces), sampling_ratio))
    ELSE {m.faces}

\* lines 121-183: the faces selected when the pass ends
VisiblePass(cfg, cameraList, initial) ==
    CameraLoop(cfg, cameraList, initial, 1,
               [toCheck |-> {}, checked |-> {}, sel |-> {}])

(***************************************************************************)
(* State.                                                                  *)
(***************************************************************************)
VARIABLES
    \* the scene: the mesh objects (name -> mesh), the other objects, the
    \* active object, the selected objects
    meshes, others, active, selected,
    \* the camera objects, the "Cameras" collection ([exists, objects]), the
    \* next fresh camera identity
    camObjs, camColl, nextCam,
    \* the select mode of edit mode (a tool setting) and the pairs of
    \* vertices that lie within the weld threshold of each other
    selectMode, nearPairs,
    \* scene.hidden_removal_props, the number of operator invocations so
    \* far and the record of the last one
    props, runs, last,
    \* select_visible_faces_multi_cameras: the position in the function,
    \* its argument `cameras`, the index of the current camera, and its
    \* locals initial_faces, faces_to_check, checked_faces and the select
    \* flags of bm's faces
    pc, cameras, camIdx, initial_faces, faces_to_check, checked_faces, select,
    \* per face, the number of visibility tests in the current camera pass
    tested,
    \* the result scene.ray_cast gives per camera and sample point, and the
    \* run the stepped pass is compared with ([cameras, experimental])
    oracle, ref,
    \* the last application of the seed-count computation
    sample

sceneVars == <<meshes, others, active, selected, camObjs, camColl, nextCam,
               selectMode, nearPairs, props, runs, last>>

passVars == <<pc, cameras, camIdx, initial_faces, faces_to_check,
              checked_faces, select, tested, oracle, ref>>

vars == <<sceneVars, passVars, sample>>

\* lines 247-331: HiddenRemovalProperties with the smallest camera rig (rows
\* and cameras_per_row at their minimum) and the other properties at their
\* defaults
DefaultProps ==
    [rows |-> MinRows, cameras_per_row |-> MinCamerasPerRow,
     delete_select_mode |-> "DELETE", precision_mode |-> "HIGH",
     keep_cameras |-> FALSE, experimental |-> FALSE,
     sampling_ratio |-> DefaultSamplingRatio,
     flatness_angle |-> DefaultFlatnessAngle,
     merge_meshes |-> TRUE, merge_by_distance |-> TRUE]

\* the values of sampling_ratio and flatness_angle the model draws
SamplingRatios == {DefaultSamplingRatio, 67, 100}

FlatnessAngles == {DefaultFlatnessAngle, 90}

NoLast == [outcome |-> "NONE"]

NoSample == [total |-> 0, ratio |-> 0, count |-> 0]

(***************************************************************************)
(* select_visible_faces_multi_cameras, step by step.                       *)
(***************************************************************************)
PassCfg ==
    [oracle |-> oracle, mesh |-> meshes["A"],
     precision |-> props.precision_mode, experimental |-> props.experimental,
     flatness_angle |-> props.flatness_angle]

\* lines 121-122 and 173 on the flags of bm: every face is deselected
\* (which deselects the edges and vertices of faces: only wire edges and
\* loose vertices keep their flag), then the faces of sel are selected
\* (which selects their edges and vertices)
BmSelect(m, sel) ==
    LET wireE == {e \in m.selE : FacesAtEdge(m, e) = {}}
        looseV == {v \in m.selV :
                      FacesAtVert(m, v) = {} \/ \E e \in wireE : v \in e}
    IN [m EXCEPT !.selF = sel,
                 !.selE = wireE \cup UNION {FaceEdges(m, f) : f \in sel},
                 !.selV = looseV \cup FaceVerts(m, sel)]

\* lines 114-133: the faces are deselected and the initial faces drawn;
\* random.sample raises ValueError when the sample exceeds the population
PassBegin ==
    /\ pc = "begin"
    /\ select' = {}
    /\ camIdx' = 0
    /\ LET choices == InitialFaces(meshes["A"], props.experimental,
                                   props.sampling_ratio)
       IN \/ /\ choices = {}
             /\ pc' = "raised"
             /\ initial_faces' = initial_faces
          \/ \E seeds \in choices :
                /\ pc' = "camera"
                /\ initial_faces' = seeds
    /\ UNCHANGED <<sceneVars, cameras, faces_to_check, checked_faces, tested,
                   oracle, ref, sample>>

\* lines 135-142: the next camera; the frontier restarts from initial_faces
CameraBegin ==
    /\ pc = "camera"
    /\ camIdx < Len(cameras)
    /\ camIdx' = camIdx + 1
    /\ LET st == FreshFrontier(initial_faces,
                               [toCheck |-> faces_to_check,
                                checked |-> checked_faces, sel |-> select])
       IN /\ faces_to_check' = st.toCheck
          /\ checked_faces' = st.checked
    /\ tested' = [f \in meshes["A"].faces |-> 0]
    /\ pc' = "loop"
    /\ UNCHANGED <<sceneVars, cameras, initial_faces, select, oracle, ref, sample>>

\* lines 144-183: one iteration of the while loop; set.pop() gives an
\* arbitrary face
PopFace ==
    /\ pc = "loop"
    /\ \E f \in faces_to_check :
          LET st == LoopBody(PassCfg, cameras[camIdx], f,
                             [toCheck |-> faces_to_check,
                              checked |-> checked_faces, sel |-> select])
          IN /\ faces_to_check' = st.toCheck
             /\ checked_faces' = st.checked
             /\ select' = st.sel
             /\ tested' = IF f \in checked_faces \/ f \in select THEN tested
                          ELSE [tested EXCEPT ![f] = @ + 1]
    /\ UNCHANGED <<sceneVars, pc, cameras, camIdx, initial_faces, oracle, ref,
                   sample>>

\* line 144: the frontier is empty, the while loop ends
CameraEnd ==
    /\ pc = "loop"
    /\ faces_to_check = {}
    /\ pc' = "camera"
    /\ UNCHANGED <<sceneVars, cameras, camIdx, initial_faces, faces_to_check,
                   checked_faces, select, tested, oracle, ref, sample>>

\* lines 185-189: the flags are written back to the mesh
PassEnd ==
    /\ pc = "camera"
    /\ camIdx = Len(cameras)
    /\ meshes' = [meshes EXCEPT !["A"] = BmSelect(@, select)]
    /\ pc' = "done"
    /\ UNCHANGED <<others, active, selected, camObjs, camColl, nextCam,
                   selectMode, nearPairs, props, runs, last, cameras, camIdx,
                   initial_faces, faces_to_check, checked_faces, select, tested,
                   oracle, ref, sample>>

\* line 128 on its own: the seed count of a mesh of sample.total faces
ComputeSampleCount ==
    /\ pc = "idle"
    /\ sample.count = 0
    /\ sample' = [sample EXCEPT !.count = SampleCount(sample.total, sample.ratio)]
    /\ UNCHANGED <<sceneVars, passVars>>

\* one call of select_visible_faces_multi_cameras, statement by statement
NextCall == PassBegin \/ CameraBegin \/ PopFace \/ CameraEnd \/ PassEnd

NextPass == NextCall \/ ComputeSampleCount

(***************************************************************************)
(* The pass on its own: the inputs of one call.                            *)
(***************************************************************************)
\* the sequence of the elements of S in increasing order
RECURSIVE Sorted(_)
Sorted(S) == IF S = {} THEN <<>> ELSE <<SetMin(S)>> \o Sorted(S \ {SetMin(S)})

Injective(sq) == \A i, j \in DOMAIN sq : sq[i] = sq[j] => i = j

\* the lists obtained from list by removing cameras
SubLists(list) == {[i \in 1..Cardinality(S) |-> list[Sorted(S)[i]]] :
                      S \in SUBSET (1..Len(list))}

\* the lists obtained from list by reordering it
Reorderings(list) ==
    {[i \in 1..Len(list) |-> list[p[i]]] :
        p \in {q \in [1..Len(list) -> 1..Len(list)] : Injective(q)}}

CentrePoints(m) == {<<"c", f>> : f \in m.faces}

\* the vertex and edge sample points the model lets a ray reach: one
\* vertex and one edge of the first face
ExtraPoints(m) ==
    IF m.faces = {} THEN {}
    ELSE LET f == SetMin(m.faces)
             v == CHOOSE x \in m.fv[f] : \A y \in m.fv[f] : y <= x
             e == CHOOSE x \in FaceEdges(m, f) : v \notin x
         IN {<<"v", v>>, <<"e", e>>}

\* the oracles of a scene: any face centres per camera; under HIGH
\* precision the first camera also reaches one vertex or edge point (with
\* none reached, HIGH behaves as LOW)
Oracles(m, poses, precision) ==
    LET centres == [poses -> SUBSET CentrePoints(m)]
    IN IF precision = "HIGH" /\ poses # {} /\ m.faces # {}
       THEN {[o EXCEPT ![SetMin(poses)] = @ \cup {x}] :
                o \in centres, x \in ExtraPoints(m)}
       ELSE centres

\* the face counts of the meshes the pass is run on
PassMeshes == {Strip(n) : n \in 0..3}

InitCall ==
    /\ \E m \in PassMeshes : meshes = [A |-> m]
    /\ others = {} /\ active = "A" /\ selected = {"A"}
    /\ camObjs = {} /\ camColl = [exists |-> FALSE, objects |-> {}]
    /\ nextCam = 1
    /\ selectMode = "VERT" /\ nearPairs = {}
    /\ \E prec \in {"LOW", "HIGH"}, exp \in BOOLEAN,
          ratio \in SamplingRatios, flat \in FlatnessAngles :
          /\ ~exp => ratio = DefaultSamplingRatio /\ flat = DefaultFlatnessAngle
          /\ props = [DefaultProps EXCEPT !.precision_mode = prec,
                         !.experimental = exp, !.sampling_ratio = ratio,
                         !.flatness_angle = flat]
    /\ runs = 0 /\ last = NoLast
    /\ pc = "begin"
    /\ \E k \in 0..MaxCams :
          LET full == [i \in 1..k |-> i]
          IN /\ k * Cardinality(meshes["A"].faces) <= MaxCells
             /\ oracle \in Oracles(meshes["A"], 1..k, props.precision_mode)
             /\ \/ /\ cameras \in SubLists(full) \cup Reorderings(full)
                   /\ ref = [cameras |-> full, experimental |-> props.experimental]
                \/ /\ props.experimental /\ props.sampling_ratio = Percent
                   /\ cameras = full
                   /\ ref = [cameras |-> full, experimental |-> FALSE]
    /\ camIdx = 0 /\ initial_faces = {} /\ faces_to_check = {}
    /\ checked_faces = {} /\ select = {}
    /\ tested = [f \in meshes["A"].faces |-> 0]
    /\ sample = NoSample

SameStrategy == ref.experimental = props.experimental

\* the inputs of the seed-count computation on its own
InitSample ==
    /\ meshes = [A |-> EmptyMesh]
    /\ others = {} /\ active = "A" /\ selected = {"A"}
    /\ camObjs = {} /\ camColl = [exists |-> FALSE, objects |-> {}]
    /\ nextCam = 1
    /\ selectMode = "VERT" /\ nearPairs = {}
    /\ props = DefaultProps
    /\ runs = 0 /\ last = NoLast
    /\ pc = "idle" /\ cameras = <<>> /\ camIdx = 0
    /\ initial_faces = {} /\ faces_to_check = {}
    /\ checked_faces = {} /\ select = {}
    /\ tested = << >>
    /\ oracle = << >> /\ ref = [cameras |-> <<>>, experimental |-> FALSE]
    /\ \E t \in 1..MaxTotal, r \in 1..Percent :
          sample = [total |-> t, ratio |-> r, count |-> 0]

InitPass == InitCall \/ InitSample

SpecPass == InitPass /\ [][NextPass]_vars

\* one call over the whole camera list with centre-point visibility
InitLoop ==
    /\ InitCall
    /\ cameras = ref.cameras /\ SameStrategy
    /\ props.precision_mode = "LOW"

\* the camera loop is not suspended: once the initial faces are drawn, a
\* statement that can run does run
FairCall ==
    /\ InitLoop /\ [][NextCall]_vars
    /\ WF_vars(CameraBegin \/ PopFace \/ CameraEnd \/ PassEnd)

(***************************************************************************)
(* The pass: claims.                                                       *)
(***************************************************************************)
AllFaces == meshes["A"].faces

\* the faces the compared run selects: the same mesh, precision, oracle
\* and flatness angle; with the strategy of the stepped pass also the same
\* seed faces
RefVisible ==
    VisiblePass([PassCfg EXCEPT !.experimental = ref.experimental], ref.cameras,
                IF ref.experimental THEN initial_faces ELSE AllFaces)

\* every face is an initial face (Exhaustive, or a seed set that is the
\* whole face set)
FullySeeded == initial_faces = AllFaces

\* C1 as stated: for either strategy and fixed seeds, the faces selected
\* over a camera list with cameras removed are among the faces selected
\* over the whole list.
C1_MonotoneAnyStrategy ==
    (pc = "done" /\ SameStrategy /\ cameras \in SubLists(ref.cameras))
        => select \subseteq RefVisible

\* C1 amended: the inclusion holds when every face is an initial face
\* (Exhaustive, or RandomizedExpansion seeded with all faces).
C1_MonotoneFullySeeded ==
    (pc = "done" /\ SameStrategy /\ FullySeeded
     /\ cameras \in SubLists(ref.cameras))
        => select \subseteq RefVisible

\* an Exhaustive pass over a list with a camera removed has ended and
\* selected some, but not all, of the faces the whole list selects
C1_Witness ==
    /\ pc = "done" /\ SameStrategy /\ ~props.experimental
    /\ cameras \in SubLists(ref.cameras) /\ Len(cameras) < Len(ref.cameras)
    /\ select # {} /\ select # RefVisible

\* C2 as stated: for either strategy, fixed seeds and every pop order,
\* every reordering of the camera list selects the same faces.
C2_OrderAnyStrategy ==
    (pc = "done" /\ SameStrategy /\ cameras \in Reorderings(ref.cameras))
        => select = RefVisible

\* C2 amended: every reordering selects the same faces, for every pop
\* order, when every face is an initial face.
C2_OrderFullySeeded ==
    (pc = "done" /\ SameStrategy /\ FullySeeded
     /\ cameras \in Reorderings(ref.cameras))
        => select = RefVisible

\* an Exhaustive pass over a reordered list has ended; the first camera of
\* the two orders see different faces, and some face is selected
C2_Witness ==
    /\ pc = "done" /\ SameStrategy /\ ~props.experimental
    /\ cameras \in Reorderings(ref.cameras) /\ cameras # ref.cameras
    /\ oracle[cameras[1]] # oracle[ref.cameras[1]]
    /\ select # {} /\ select # AllFaces

StrategyCompared ==
    /\ props.experimental /\ props.sampling_ratio = Percent
    /\ ~ref.experimental /\ cameras = ref.cameras

\* C3: RandomizedExpansion with samplingRatio = 100 returns the set of
\* faces that Exhaustive returns on the same mesh, cameras and precision.
C3_FullSamplingEqualsExhaustive ==
    StrategyCompared => /\ pc # "raised"
                        /\ pc = "done" => select = RefVisible

\* on a mesh with faces the two strategies agree
C3_AgreeOnNonEmptyMesh ==
    (StrategyCompared /\ pc = "done") => select = RefVisible

\* the amended first half of C9: the seed count is the truncated product;
\* it is the floor of the exact quotient, or one less when the quotient is
\* an integer that the rounded product falls short of
SeedCountTruncates(total, ratio, count) ==
    LET exact == (total * ratio) \div Percent
    IN /\ count >= 1 /\ count <= total
       /\ \/ count = Max(1, exact)
          \/ (total * ratio) % Percent = 0 /\ count = Max(1, exact - 1)

\* the first half of C9 as stated: the seed count is the ceiling
SeedCountCeiling(total, ratio, count) ==
    count = Max(1, (total * ratio + Percent - 1) \div Percent)

SeedsDrawn == props.experimental /\ pc \in {"camera", "loop", "done"}

\* C9 as stated: the number of seed faces is
\* max(1, ceil(totalFaces * samplingRatio / 100)).
C9_SeedCountIsCeiling ==
    /\ sample.count # 0
          => SeedCountCeiling(sample.total, sample.ratio, sample.count)
    /\ SeedsDrawn
          => SeedCountCeiling(Cardinality(AllFaces), props.sampling_ratio,
                              Cardinality(initial_faces))

\* C9 amended: the number of seed faces is the truncated product
\* max(1, int(totalFaces * (samplingRatio / 100))); the seeds are drawn
\* once, never change, and every camera's frontier starts as the seed set.
C9_SeedCountTruncatesSeedsReused ==
    /\ [](sample.count # 0
            => SeedCountTruncates(sample.total, sample.ratio, sample.count))
    /\ [](SeedsDrawn
            => /\ initial_faces \subseteq AllFaces
               /\ SeedCountTruncates(Cardinality(AllFaces), props.sampling_ratio,
                                     Cardinality(initial_faces)))
    /\ [][pc # "begin" => initial_faces' = initial_faces]_vars
    /\ [][(pc = "camera" /\ pc' = "loop")
            => faces_to_check' = initial_faces]_vars

\* 50 faces at 58 percent: 28 seeds (the exact quotient is 29)
C9_Witness == sample = [total |-> 50, ratio |-> 58, count |-> 28]

\* the second camera starts from the seeds the first one started from,
\* fewer than the ceiling
C9_WitnessReuse ==
    /\ SeedsDrawn /\ pc = "loop" /\ camIdx = 2 /\ checked_faces = {}
    /\ faces_to_check = initial_faces
    /\ ~SeedCountCeiling(Cardinality(AllFaces), props.sampling_ratio,
                         Cardinality(initial_faces))

\* within a camera pass no face is tested twice and no checked face is on
\* the frontier
TestedOnce ==
    pc = "loop" => /\ \A f \in AllFaces : tested[f] <= 1
                   /\ faces_to_check \cap checked_faces = {}

\* C10: each camera's frontier loop ends, a face is tested at most once
\* per camera pass and a checked face is never put back on the frontier.
C10_FrontierTerminates ==
    /\ []TestedOnce
    /\ (pc = "loop") ~> (pc = "camera")
    /\ (pc = "camera") ~> (pc = "done")

\* under RandomizedExpansion a camera pass has tested a face that was not
\* a seed, and a face that was tested is linked to it
C10_Witness ==
    /\ pc = "loop" /\ props.experimental
    /\ \E f \in AllFaces \ initial_faces : tested[f] = 1
    /\ Cardinality(checked_faces) >= 2

(***************************************************************************)
(* The edit-mode operators the add-on calls, on a mesh record.  Hiding an  *)
(* element hides what the select mode makes it carry along; select_all     *)
(* and the deletions act on the elements that are not hidden.              *)
(***************************************************************************)
\* line 193: bpy.ops.mesh.hide(unselected=False).  Vertex mode: a selected
\* vertex is hidden with its edges and their faces; edge mode: a selected
\* edge with its faces, and a vertex all of whose edges are hidden; face
\* mode: a selected face, an edge all of whose faces are hidden, a vertex
\* all of whose edges are hidden.  A hidden element is deselected.
Hide(m, mode) ==
    LET sv == m.selV \ m.hidV
        se == m.selE \ m.hidE
        sf == m.selF \ m.hidF
        hidE2 ==
            CASE mode = "VERT" -> m.hidE \cup {e \in m.edges : e \cap sv # {}}
              [] mode = "EDGE" -> m.hidE \cup se
              [] OTHER ->
                   m.hidE \cup {e \in UNION {FaceEdges(m, f) : f \in sf} :
                                   FacesAtEdge(m, e) \subseteq m.hidF \cup sf}
        hidF2 ==
            CASE mode = "VERT" ->
                   m.hidF \cup {f \in m.faces : FaceEdges(m, f) \cap hidE2 # {}}
              [] mode = "EDGE" ->
                   m.hidF \cup {f \in m.faces : FaceEdges(m, f) \cap se # {}}
              [] OTHER -> m.hidF \cup sf
        hidV2 ==
            CASE mode = "VERT" -> m.hidV \cup sv
              [] mode = "EDGE" ->
                   m.hidV \cup {v \in UNION se : EdgesAt(m, v) \subseteq hidE2}
              [] OTHER ->
                   m.hidV \cup {v \in FaceVerts(m, sf) :
                                   EdgesAt(m, v) \subseteq hidE2}
    IN [m EXCEPT !.hidV = hidV2, !.hidE = hidE2, !.hidF = hidF2,
                 !.selV = @ \ hidV2, !.selE = @ \ hidE2, !.selF = @ \ hidF2]

\* lines 194, 196, 198, 384, 390: bpy.ops.mesh.select_all(action='SELECT')
SelectAll(m) ==
    [m EXCEPT !.selV = m.verts \ m.hidV, !.selE = m.edges \ m.hidE,
              !.selF = m.faces \ m.hidF]

\* the mesh without the vertices V, the edges E and the faces F
Without(m, V, E, F) ==
    [verts |-> m.verts \ V, edges |-> m.edges \ E, faces |-> m.faces \ F,
     fv |-> [f \in m.faces \ F |-> m.fv[f]],
     selV |-> {}, selE |-> {}, selF |-> {},
     hidV |-> m.hidV \ V, hidE |-> m.hidE \ E, hidF |-> m.hidF \ F]

\* line 195: bpy.ops.mesh.delete(type='FACE'): the selected faces, the
\* edges and vertices that only they use
DeleteFaces(m) ==
    LET F == m.selF
        keptF == m.faces \ F
        E == {e \in UNION {FaceEdges(m, f) : f \in F} :
                 FacesAtEdge(m, e) \cap keptF = {}}
        V == {v \in FaceVerts(m, F) :
                 /\ v \notin FaceVerts(m, keptF)
                 /\ EdgesAt(m, v) \subseteq E}
    IN Without(m, V, E, F)

\* line 197: bpy.ops.mesh.delete(type='EDGE'): the selected edges, the
\* faces using them, the vertices they leave without an edge
DeleteEdges(m) ==
    LET E == m.selE
        F == {f \in m.faces : FaceEdges(m, f) \cap E # {}}
        V == {v \in UNION E : EdgesAt(m, v) \subseteq E}
    IN Without(m, V, E, F)

\* line 199: bpy.ops.mesh.delete(type='VERT'): the selected vertices, their
\* edges and faces
DeleteVerts(m) ==
    LET V == m.selV
        E == {e \in m.edges : e \cap V # {}}
        F == {f \in m.faces : m.fv[f] \cap V # {}}
    IN Without(m, V, E, F)

\* line 200: bpy.ops.mesh.reveal(): what was hidden is shown and selected
Reveal(m) ==
    [m EXCEPT !.hidV = {}, !.hidE = {}, !.hidF = {},
              !.selV = @ \cup m.hidV, !.selE = @ \cup m.hidE,
              !.selF = @ \cup m.hidF]

\* lines 192-201: delete_invisible_faces
delete_invisible_faces(m, mode) ==
    Reveal(DeleteVerts(SelectAll(DeleteEdges(SelectAll(DeleteFaces(SelectAll(
        Hide(m, mode))))))))

\* line 385: bpy.ops.mesh.remove_doubles on the selected vertices: of each
\* near pair of selected vertices the larger is merged into the smaller;
\* an edge or a face that collapses is removed
RemoveDoubles(m, near) ==
    LET live == {pr \in near : pr \subseteq m.selV}
        Target(v) == SetMin({v} \cup {w \in m.verts : {v, w} \in live})
        fv2 == [f \in m.faces |-> {Target(v) : v \in m.fv[f]}]
        keptF == {f \in m.faces : Cardinality(fv2[f]) >= 3}
        E2 == {{Target(v) : v \in e} : e \in m.edges}
    IN [verts |-> {Target(v) : v \in m.verts},
        edges |-> {e \in E2 : Cardinality(e) = 2},
        faces |-> keptF,
        fv |-> [f \in keptF |-> fv2[f]],
        selV |-> {Target(v) : v \in m.selV},
        selE |-> {e \in {{Target(v) : v \in d} : d \in m.selE} :
                     Cardinality(e) = 2},
        selF |-> m.selF \cap keptF,
        hidV |-> m.hidV, hidE |-> m.hidE, hidF |-> m.hidF]

(***************************************************************************)
(* The scene operations of the add-on, on a scene record                   *)
(* [meshes, active, selected, camObjs, camColl, nextCam].  No camera is    *)
(* the active object or selected.                                          *)
(***************************************************************************)
Scene ==
    [meshes |-> meshes, active |-> active, selected |-> selected,
     camObjs |-> camObjs, camColl |-> camColl, nextCam |-> nextCam]

NoCollection == [exists |-> FALSE, objects |-> {}]

\* scene.objects lists mesh object "A" before "B"
FirstMesh(names) == IF "A" \in names THEN "A" ELSE "B"

\* line 242: bpy.ops.object.join(): the geometry of the selected mesh
\* objects in one mesh
Join(ms) ==
    LET N == DOMAIN ms
        All(field) == UNION {ms[n][field] : n \in N}
    IN [verts |-> All("verts"), edges |-> All("edges"), faces |-> All("faces"),
        fv |-> [f \in All("faces") |->
                   ms[CHOOSE n \in N : f \in ms[n].faces].fv[f]],
        selV |-> All("selV"), selE |-> All("selE"), selF |-> All("selF"),
        hidV |-> All("hidV"), hidE |-> All("hidE"), hidF |-> All("hidF")]

\* lines 221-244: merge_all_meshes; gives the scene and the returned
\* object ("none" for None)
merge_all_meshes(s) ==
    LET deselected == [s EXCEPT !.selected = {}]
        names == DOMAIN s.meshes
        first == FirstMesh(names)
    IN IF names = {}
       THEN [scene |-> deselected, obj |-> "none"]
       ELSE [scene |-> [deselected EXCEPT
                           !.meshes = [n \in {first} |-> Join(s.meshes)],
                           !.active = first, !.selected = {first}],
             obj |-> first]

\* lines 206-213 only: the cameras of the "Cameras" collection and the
\* collection are removed
delete_collection_cameras(s) ==
    IF s.camColl.exists
    THEN [s EXCEPT !.camObjs = @ \ s.camColl.objects,
                   !.camColl = NoCollection]
    ELSE s

\* lines 204-218: delete_all_cameras: the cameras of the "Cameras"
\* collection, the collection, then every camera left in bpy.data.objects
delete_all_cameras(s) ==
    [s EXCEPT !.camObjs = {}, !.camColl = NoCollection]

\* lines 72-102 with 36-69 and 23-33: create_camera_setup; gives the scene
\* and the list of the cameras made
create_camera_setup(s, rows, cameras_per_row, keep_cameras) ==
    LET n == rows * (2 * (cameras_per_row \div 2))
        made == [i \in 1..n |-> s.nextCam + i - 1]
        ids == {made[i] : i \in 1..n}
    IN [scene |-> [s EXCEPT
                      !.camObjs = @ \cup ids,
                      !.nextCam = @ + n,
                      !.camColl = IF keep_cameras
                                  THEN [exists |-> TRUE,
                                        objects |-> @.objects \cup ids]
                                  ELSE @],
        cameras |-> made]

\* lines 378-379: the edit the mode asks for
EditStep(m, delete_select_mode, mode) ==
    IF delete_select_mode = "DELETE" THEN delete_invisible_faces(m, mode) ELSE m

\* a weld that does not look at the option
WeldStepAlways(m, merge_by_distance, near) == RemoveDoubles(SelectAll(m), near)

\* lines 381-386: merge by distance if the option is checked
WeldStep(m, merge_by_distance, near) ==
    IF merge_by_distance THEN RemoveDoubles(SelectAll(m), near) ELSE m

\* lines 388-392: the remaining faces are counted, with everything selected
CountStep(m) == SelectAll(m)

(***************************************************************************)
(* OBJECT_OT_hidden_geometry_removal.execute, lines 339-402, as one step.  *)
(***************************************************************************)
\* what lines 127-133 can give the pass: the initial faces, or the
\* ValueError random.sample raises for a sample larger than the population
SeedChoices(m, experimental, sampling_ratio) ==
    LET choices == InitialFaces(m, experimental, sampling_ratio)
    IN IF choices = {} THEN {[raised |-> TRUE, faces |-> {}]}
       ELSE {[raised |-> FALSE, faces |-> S] : S \in choices}

\* lines 357-402: the run on mesh object obj of scene s1; s0 is the scene
\* when the operator was invoked, seen the faces whose centre the ray cast
\* of the first camera made reaches, seeds the initial faces
RunOn(s0, s1, obj, p, mode, near, seen, seeds) ==
    LET s2 == delete_all_cameras(s1)
        made == create_camera_setup(s2, p.rows, p.cameras_per_row,
                                    p.keep_cameras)
        s3 == made.scene
        cams == made.cameras
        ids == {cams[i] : i \in 1..Len(cams)}
        m == s3.meshes[obj]
        cfg == [oracle |-> [c \in ids |-> IF c = cams[1]
                                          THEN {<<"c", f>> : f \in seen}
                                          ELSE {}],
                mesh |-> m, precision |-> p.precision_mode,
                experimental |-> p.experimental,
                flatness_angle |-> p.flatness_angle]
        visible == VisiblePass(cfg, cams, seeds.faces)
        m1 == BmSelect(m, visible)
        m2 == EditStep(m1, p.delete_select_mode, mode)
        m3 == WeldStep(m2, p.merge_by_distance, near)
        m4 == CountStep(m3)
        s4 == [s3 EXCEPT !.meshes[obj] = m4]
        s5 == IF ~p.keep_cameras THEN delete_all_cameras(s4) ELSE s4
    IN IF seeds.raised
       THEN [scene |-> s3,
             last |-> [outcome |-> "EXCEPTION", before |-> s0, obj |-> obj,
                       props |-> p, cameras |-> ids]]
       ELSE [scene |-> s5,
             last |-> [outcome |-> "FINISHED", before |-> s0, obj |-> obj,
                       props |-> p, cameras |-> ids, visible |-> visible,
                       atPass |-> m, edited |-> m2,
                       total_faces |-> Cardinality(m.faces),
                       visible_faces |-> Cardinality(m4.faces)]]

\* lines 339-355: the target object; without one the operator is cancelled
Execute ==
    /\ pc = "idle"
    /\ runs < MaxRuns
    /\ LET s0 == Scene
           merged == IF props.merge_meshes THEN merge_all_meshes(s0)
                     ELSE [scene |-> s0, obj |-> s0.active]
           s1 == merged.scene
           obj == merged.obj
           target == IF obj \in DOMAIN s1.meshes THEN s1.meshes[obj]
                     ELSE EmptyMesh
       IN \E seen \in SUBSET target.faces,
             seeds \in SeedChoices(target, props.experimental,
                                   props.sampling_ratio) :
             \E r \in {IF obj \in DOMAIN s1.meshes
                       THEN RunOn(s0, s1, obj, props, selectMode, nearPairs,
                                  seen, seeds)
                       ELSE [scene |-> s1,
                             last |-> [outcome |-> "CANCELLED", before |-> s0,
                                       obj |-> obj, props |-> props,
                                       cameras |-> {}]]} :
                /\ meshes' = r.scene.meshes
                /\ active' = r.scene.active
                /\ selected' = r.scene.selected
                /\ camObjs' = r.scene.camObjs
                /\ camColl' = r.scene.camColl
                /\ nextCam' = r.scene.nextCam
                /\ last' = r.last
    /\ runs' = runs + 1
    /\ UNCHANGED <<others, selectMode, nearPairs, props, passVars, sample>>

\* the user toggles "Keep Cameras" in the panel, lines 292-296 and 424
SetKeepCameras ==
    /\ pc = "idle"
    /\ runs < MaxRuns
    /\ props' = [props EXCEPT !.keep_cameras = ~@]
    /\ UNCHANGED <<meshes, others, active, selected, camObjs, camColl, nextCam,
                   selectMode, nearPairs, runs, last, passVars, sample>>

NextRun == Execute \/ SetKeepCameras

\* the mesh objects of the scenes the operator is invoked in
InitMeshes ==
    {[n \in {} |-> EmptyMesh]}
    \cup {[n \in {"A"} |-> Strip(k)] : k \in {0, 2, 3}}
    \cup {[n \in {"A"} |-> WithWire(Strip(2), b)] : b \in BOOLEAN}
    \cup {[n \in {"A", "B"} |-> IF n = "A" THEN Strip(2) ELSE Triangle]}

\* the cameras an earlier use of the scene has left: none, a camera of the
\* scene collection, a kept "Cameras" collection
InitCameras ==
    {[objs |-> {}, coll |-> NoCollection],
     [objs |-> {0}, coll |-> NoCollection],
     [objs |-> {0}, coll |-> [exists |-> TRUE, objects |-> {0}]]}

\* no pass is being stepped through
IdlePass ==
    /\ pc = "idle" /\ cameras = <<>> /\ camIdx = 0
    /\ initial_faces = {} /\ faces_to_check = {}
    /\ checked_faces = {} /\ select = {}
    /\ tested = << >>
    /\ oracle = << >> /\ ref = [cameras |-> <<>>, experimental |-> FALSE]
    /\ sample = NoSample

\* one invocation (the last the bound allows) in each scene and setting
InitOneRun ==
    /\ meshes \in InitMeshes
    /\ others = {"Lamp"}
    /\ active \in DOMAIN meshes \cup others \cup {"none"}
    /\ selected = IF active = "none" THEN {} ELSE {active}
    /\ \E c \in InitCameras : camObjs = c.objs /\ camColl = c.coll
    /\ nextCam = 1
    /\ selectMode \in {"VERT", "EDGE", "FACE"}
    /\ nearPairs \in {{}, {{1, 4}}}
    /\ \E dsm \in {"DELETE", "OUTER_SELECT"}, exp, mm, mbd \in BOOLEAN :
          props = [DefaultProps EXCEPT !.delete_select_mode = dsm,
                      !.experimental = exp, !.merge_meshes = mm,
                      !.merge_by_distance = mbd]
    /\ runs = MaxRuns - 1 /\ last = NoLast
    /\ IdlePass

\* repeated invocations on one mesh object with the default settings
InitRepeated ==
    /\ \E k \in 1..2 : meshes = [n \in {"A"} |-> Strip(k)]
    /\ others = {} /\ active = "A" /\ selected = {"A"}
    /\ \E c \in InitCameras : camObjs = c.objs /\ camColl = c.coll
    /\ nextCam = 1
    /\ selectMode = "VERT" /\ nearPairs = {}
    /\ \E dsm \in {"DELETE", "OUTER_SELECT"} :
          props = [DefaultProps EXCEPT !.delete_select_mode = dsm]
    /\ runs = 0 /\ last = NoLast
    /\ IdlePass

InitRun == InitOneRun \/ InitRepeated

SpecRun == InitRun /\ [][NextRun]_vars

(***************************************************************************)
(* The run: claims.                                                        *)
(***************************************************************************)
Finished == last.outcome = "FINISHED"

DeleteRun == Finished /\ last.props.delete_select_mode = "DELETE"

SelectRun == Finished /\ last.props.delete_select_mode = "OUTER_SELECT"

Topology(m) == <<m.verts, m.edges, m.faces>>

NoOrphans(m) ==
    /\ \A e \in m.edges : FacesAtEdge(m, e) # {}
    /\ \A v \in m.verts : FacesAtVert(m, v) # {}

\* C4: after delete_invisible_faces the remaining faces are exactly the
\* faces the pass marked visible, and every remaining edge and vertex
\* belongs to a remaining face.
C4_DeletePostcondition ==
    DeleteRun => /\ last.edited.faces = last.visible
                 /\ NoOrphans(last.edited)

\* C5: when a SelectOuter run has finished, the selected faces of the mesh
\* are exactly the faces the pass marked visible.
C5_SelectOuterSelection ==
    SelectRun => meshes[last.obj].selF = last.visible

\* C6 as stated: when a SelectOuter run has finished, the vertices, edges
\* and faces of the mesh are those at the start of the pass, for every
\* value of the weld option.
C6_SelectOuterKeepsTopology ==
    SelectRun => Topology(meshes[last.obj]) = Topology(last.atPass)

\* C6 amended: the weld runs whenever the option is set, in SelectOuter
\* mode too; a SelectOuter run leaves the vertices, edges and faces as
\* they were at the start of the pass when the option is off, and as the
\* weld of that mesh leaves them when it is on.
C6_SelectOuterTopologyByWeld ==
    SelectRun =>
        Topology(meshes[last.obj]) =
            IF last.props.merge_by_distance
            THEN Topology(RemoveDoubles(SelectAll(last.atPass), nearPairs))
            ELSE Topology(last.atPass)

\* a SelectOuter run without the weld has finished on a mesh with two
\* vertices within the threshold and a face that was not marked visible
C6_Witness ==
    /\ SelectRun /\ ~last.props.merge_by_distance
    /\ \E pr \in nearPairs : pr \subseteq last.atPass.verts
    /\ last.visible # last.atPass.faces /\ last.visible # {}

\* the faces of the target of the last invocation: none when the target is
\* absent or not a mesh
TargetFaces ==
    IF last.obj \notin DOMAIN last.before.meshes THEN {}
    ELSE IF last.props.merge_meshes THEN Join(last.before.meshes).faces
    ELSE last.before.meshes[last.obj].faces

\* C7: an invocation without a mesh target, or with a mesh target of zero
\* faces, is cancelled and leaves the meshes, the object selection and the
\* cameras as they were.
C7_NoTargetGeometry ==
    (last.outcome # "NONE" /\ TargetFaces = {})
        => /\ last.outcome = "CANCELLED"
           /\ meshes = last.before.meshes
           /\ selected = last.before.selected
           /\ camObjs = last.before.camObjs

\* C8: when a run has finished with keep_cameras off none of the cameras it
\* generated exists, and with keep_cameras on all of them exist, whatever
\* the earlier runs did.
C8_CameraLifetime ==
    Finished => /\ last.cameras # {}
                /\ IF last.props.keep_cameras
                   THEN last.cameras \subseteq camObjs
                   ELSE last.cameras \cap camObjs = {}

\* a run that does not keep its cameras has finished after a run that kept
\* its own
C8_Witness ==
    /\ Finished /\ runs >= 2 /\ ~last.props.keep_cameras
    /\ last.before.camColl.exists /\ last.before.nextCam > 1
    /\ last.before.camColl.objects # {}

(***************************************************************************)
(* The whole model: the stepped pass, the seed count and the operator.     *)
(***************************************************************************)
Init == InitPass \/ InitRun

Next == NextPass \/ NextRun

Spec == Init /\ [][Next]_vars

====
